---- MODULE Spec2Model ----
(***************************************************************************)
(* A model of src/main.py: a compiler for a whitespace-delimited stack     *)
(* language (integer literals, + - .) to x86-64 NASM assembly, and of the  *)
(* execution of the code it emits.                                         *)
(*                                                                         *)
(* Text is modelled as sequences of one-character strings.  A Python int   *)
(* (unbounded) is modelled as a canonical decimal numeral                  *)
(* [neg |-> BOOLEAN, mag |-> digits without leading zeros].  A 64-bit      *)
(* machine word is a little-endian sequence of eight bytes.                *)
(***************************************************************************)
EXTENDS Integers, Sequences, FiniteSets, TLC

VARIABLES
    line, lexed,             \* lex_line: the line scanned, the tokens yielded
    token, parsed,           \* parse_token_as_op: the token, the result
    argv, content, pc, toks, idx, ops, program, printed, out, outAsm, calls,
                             \* main: argv, the file's text, main's position,
                             \* parse_file's locals, what was printed, main's
                             \* out, the file out.asm, the subprocesses run
    prog, entry, asm, cpu    \* the emitted code running: the operations it
                             \* was compiled from, the stack on entry, the
                             \* text, the machine

lexVars == <<line, lexed>>
tokVars == <<token, parsed>>
mainVars == <<argv, content, pc, toks, idx, ops, program, printed, out, outAsm,
              calls>>
runVars == <<prog, entry, asm, cpu>>
vars == <<line, lexed, token, parsed, argv, content, pc, toks, idx, ops,
          program, printed, out, outAsm, calls, prog, entry, asm, cpu>>

(***************************************************************************)
(* Bounds of the model.                                                    *)
(***************************************************************************)
MaxLineLen == 5
MaxTokLen == 5
MaxFileLen == 5
MaxOps == 4

(***************************************************************************)
(* Characters.                                                             *)
(***************************************************************************)
Whitespace == {" ", "\t", "\n", "\r", "\f"}
Digits == {"0", "1", "2", "3", "4", "5", "6", "7", "8", "9"}
Char == Whitespace \cup Digits \cup {"+", "-", ".", "_", "a"}

\* str.isspace on one character
isspace(x) == x \in Whitespace

\* the two predicates lex_line passes to find_col
IsSpacePred == [x \in Char |-> isspace(x)]
NotSpacePred == [x \in Char |-> ~isspace(x)]

\* all texts over alphabet A of length at most n
RECURSIVE TextsUpTo(_, _)
TextsUpTo(A, n) ==
    IF n = 0 THEN {<<>>}
    ELSE LET shorter == TextsUpTo(A, n - 1)
         IN  shorter \cup {Append(t, c) : t \in {s \in shorter : Len(s) = n - 1}, c \in A}

(***************************************************************************)
(* The scanner.  Columns are 0-based as in the code; line[i] of the code   *)
(* is line[i + 1] here.                                                    *)
(***************************************************************************)
RECURSIVE find_col(_, _, _)
find_col(ln, start, predecate) ==
    IF start < Len(ln) /\ ~predecate[ln[start + 1]]
    THEN find_col(ln, start + 1, predecate)
    ELSE start

\* the loop of lex_line from column col on: the (col, token) pairs yielded
RECURSIVE lex_from(_, _)
lex_from(ln, col) ==
    IF col < Len(ln)
    THEN LET col_end == find_col(ln, col, IsSpacePred)
         IN  <<<<col, SubSeq(ln, col + 1, col_end)>>>>
             \o lex_from(ln, find_col(ln, col_end, NotSpacePred))
    ELSE <<>>

lex_line_noskip(ln) == lex_from(ln, 0)
lex_line(ln) == lex_from(ln, find_col(ln, 0, NotSpacePred))

\* f.readlines(): the text split after each newline, terminators kept
RECURSIVE readlines_from(_, _)
readlines_from(text, cur) ==
    IF text = <<>> THEN (IF cur = <<>> THEN <<>> ELSE <<cur>>)
    ELSE IF Head(text) = "\n"
         THEN <<Append(cur, "\n")>> \o readlines_from(Tail(text), <<>>)
         ELSE readlines_from(Tail(text), Append(cur, Head(text)))

readlines(text) == readlines_from(text, <<>>)

\* the comprehension of lex_file over the rows from `row` on
RECURSIVE lex_rows(_, _, _)
lex_rows(file, lines, row) ==
    IF row >= Len(lines) THEN <<>>
    ELSE LET lt == lex_line(lines[row + 1])
         IN  [i \in 1..Len(lt) |-> <<file, row, lt[i][1], lt[i][2]>>]
             \o lex_rows(file, lines, row + 1)

lex_file(file, text) == lex_rows(file, readlines(text), 0)

(***************************************************************************)
(* int(token), for a token without whitespace: an optional sign + or -,    *)
(* then decimal digits, single underscores allowed between digits.         *)
(***************************************************************************)
DigitVal(c) ==
    CASE c = "0" -> 0 [] c = "1" -> 1 [] c = "2" -> 2 [] c = "3" -> 3
      [] c = "4" -> 4 [] c = "5" -> 5 [] c = "6" -> 6 [] c = "7" -> 7
      [] c = "8" -> 8 [] c = "9" -> 9

\* the body after the sign: digits, each underscore between two digits
IntBodyOk(b) ==
    /\ Len(b) > 0
    /\ \A i \in 1..Len(b) : b[i] \in Digits \cup {"_"}
    /\ b[1] \in Digits /\ b[Len(b)] \in Digits
    /\ \A i \in 1..Len(b) - 1 : ~(b[i] = "_" /\ b[i + 1] = "_")

IntSign(t) == IF t # <<>> /\ Head(t) \in {"+", "-"} THEN <<Head(t)>> ELSE <<>>
IntBody(t) == IF t # <<>> /\ Head(t) \in {"+", "-"} THEN Tail(t) ELSE t

\* whether int(t) returns (TRUE) or raises ValueError (FALSE)
IntAccepts(t) == IntBodyOk(IntBody(t))

RECURSIVE DigitsOf(_)
DigitsOf(b) ==
    IF b = <<>> THEN <<>>
    ELSE IF Head(b) = "_" THEN DigitsOf(Tail(b))
         ELSE <<DigitVal(Head(b))>> \o DigitsOf(Tail(b))

RECURSIVE StripZeros(_)
StripZeros(d) == IF Len(d) > 1 /\ Head(d) = 0 THEN StripZeros(Tail(d)) ELSE d

\* the value of int(t), for t that int accepts
IntOf(t) ==
    LET mag == StripZeros(DigitsOf(IntBody(t)))
    IN  [neg |-> IntSign(t) = <<"-">> /\ mag # <<0>>, mag |-> mag]

(***************************************************************************)
(* The parser.                                                             *)
(***************************************************************************)
OP_PUSH_INT == "OP_PUSH_INT"
OP_PLUS == "OP_PLUS"
OP_MINUS == "OP_MINUS"
OP_DUMP == "OP_DUMP"

\* the result of a call: the value returned, or the exception raised
Returned(v) == [ok |-> TRUE, val |-> v]
Raised(msg) == [ok |-> FALSE, msg |-> msg]

parse_token_as_op(t) ==
    IF t = <<"+">> THEN Returned(<<OP_PLUS>>)
    ELSE IF t = <<"-">> THEN Returned(<<OP_MINUS>>)
    ELSE IF t = <<".">> THEN Returned(<<OP_DUMP>>)
    ELSE IF IntAccepts(t) THEN Returned(<<OP_PUSH_INT, IntOf(t)>>)
    ELSE Raised(<<"Invalid token", t>>)

(***************************************************************************)
(* 64-bit machine words: eight bytes, least significant first.             *)
(***************************************************************************)
Byte == 0..255
WordLen == 8

\* the sum of byte sequences a and b of equal length from byte i on, carry c in
RECURSIVE AddBytes(_, _, _, _)
AddBytes(a, b, i, c) ==
    IF i > Len(a) THEN <<>>
    ELSE LET s == a[i] + b[i] + c
         IN  <<s % 256>> \o AddBytes(a, b, i + 1, s \div 256)

\* a times the small number k plus c, byte by byte, kept to Len(a) bytes
RECURSIVE MulBytes(_, _, _, _)
MulBytes(a, k, i, c) ==
    IF i > Len(a) THEN <<>>
    ELSE LET s == a[i] * k + c
         IN  <<s % 256>> \o MulBytes(a, k, i + 1, s \div 256)

\* the word of a natural number below 2^31
WordOfNat(n) == [i \in 1..WordLen |-> IF i > 4 THEN 0
                    ELSE (n \div (IF i = 1 THEN 1 ELSE IF i = 2 THEN 256
                                  ELSE IF i = 3 THEN 65536 ELSE 16777216)) % 256]

AddW(a, b) == AddBytes(a, b, 1, 0)
NotW(a) == [i \in 1..WordLen |-> 255 - a[i]]
NegW(a) == AddBytes(NotW(a), WordOfNat(0), 1, 1)
SubW(a, b) == AddBytes(a, NotW(b), 1, 1)
MulSmallW(a, k) == MulBytes(a, k, 1, 0)

\* column k (from 0) of the schoolbook product of a and b
RECURSIVE ColumnSum(_, _, _, _)
ColumnSum(a, b, k, i) ==
    IF i > WordLen THEN 0
    ELSE (IF k + 2 - i >= 1 /\ k + 2 - i <= WordLen THEN a[i] * b[k + 2 - i] ELSE 0)
         + ColumnSum(a, b, k, i + 1)

\* the 16 bytes of the full product a * b from column k on, carry c in
RECURSIVE MulColumns(_, _, _, _)
MulColumns(a, b, k, c) ==
    IF k >= 2 * WordLen THEN <<>>
    ELSE LET s == ColumnSum(a, b, k, 1) + c
         IN  <<s % 256>> \o MulColumns(a, b, k + 1, s \div 256)

\* logical shift right by 3 bits
Shr3W(a) == [i \in 1..WordLen |->
                (a[i] \div 8) + (IF i < WordLen THEN (a[i + 1] % 8) * 32 ELSE 0)]

\* a 32-bit operation's result: the low four bytes, the high four cleared
ZeroExtend32(a) == [i \in 1..WordLen |-> IF i <= 4 THEN a[i] ELSE 0]

\* a 32-bit immediate as the CPU reads it: bits 0..31, sign-extended
SignExtend32(a) == [i \in 1..WordLen |-> IF i <= 4 THEN a[i]
                                          ELSE IF a[4] >= 128 THEN 255 ELSE 0]

\* unsigned a > 9, the condition of `cmp rax, 9` / `ja`
Above10(a) == a[1] > 10 \/ \E i \in 2..WordLen : a[i] # 0
Above9(a) == a[1] > 9 \/ \E i \in 2..WordLen : a[i] # 0

IsNegW(a) == a[WordLen] >= 128

\* the signed value of a word when it lies in -2^23 .. 2^23 - 1, else Far
Far == 2 ^ 30
SmallOfW(a) ==
    IF \A i \in 4..WordLen : a[i] = 0 THEN
        IF a[3] < 128 THEN a[1] + 256 * a[2] + 65536 * a[3] ELSE Far
    ELSE IF \A i \in 4..WordLen : a[i] = 255 THEN
        IF a[3] >= 128 THEN a[1] + 256 * a[2] + 65536 * a[3] - 16777216 ELSE Far
    ELSE Far

\* the word of a decimal numeral, modulo 2^64
RECURSIVE WordOfDigits(_, _)
WordOfDigits(d, acc) ==
    IF d = <<>> THEN acc
    ELSE WordOfDigits(Tail(d), MulBytes(acc, 10, 1, Head(d)))

WordOfNumeral(n) ==
    LET w == WordOfDigits(n.mag, WordOfNat(0))
    IN  IF n.neg THEN NegW(w) ELSE w

\* the numeral of a small integer
RECURSIVE NatDigits(_)
NatDigits(k) == IF k < 10 THEN <<k>> ELSE Append(NatDigits(k \div 10), k % 10)

Num(k) == IF k < 0 THEN [neg |-> TRUE, mag |-> NatDigits(-k)]
          ELSE [neg |-> FALSE, mag |-> NatDigits(k)]

(***************************************************************************)
(* The code generator.  The assembly text is a sequence of lines; a line   *)
(* is a tuple of its fixed text and, where the code formats an operand     *)
(* with %d, the characters the formatting produces.                        *)
(***************************************************************************)
DigitChar(d) ==
    CASE d = 0 -> "0" [] d = 1 -> "1" [] d = 2 -> "2" [] d = 3 -> "3"
      [] d = 4 -> "4" [] d = 5 -> "5" [] d = 6 -> "6" [] d = 7 -> "7"
      [] d = 8 -> "8" [] d = 9 -> "9"

\* "%d" % n
FormatD(n) ==
    (IF n.neg THEN <<"-">> ELSE <<>>) \o [i \in 1..Len(n.mag) |-> DigitChar(n.mag[i])]

Header ==
    << <<"BITS 64">>,
       <<"segment .text">>,
       <<"dump:">>,
       <<"    mov     r9, -3689348814741910323">>,
       <<"    sub     rsp, 40">>,
       <<"    mov     BYTE [rsp+31], 10">>,
       <<"    lea     rcx, [rsp+30]">>,
       <<".L2:">>,
       <<"    mov     rax, rdi">>,
       <<"    lea     r8, [rsp+32]">>,
       <<"    mul     r9">>,
       <<"    mov     rax, rdi">>,
       <<"    sub     r8, rcx">>,
       <<"    shr     rdx, 3">>,
       <<"    lea     rsi, [rdx+rdx*4]">>,
       <<"    add     rsi, rsi">>,
       <<"    sub     rax, rsi">>,
       <<"    add     eax, 48">>,
       <<"    mov     BYTE [rcx], al">>,
       <<"    mov     rax, rdi">>,
       <<"    mov     rdi, rdx">>,
       <<"    mov     rdx, rcx">>,
       <<"    sub     rcx, 1">>,
       <<"    cmp     rax, 9">>,
       <<"    ja      .L2">>,
       <<"    lea     rax, [rsp+32]">>,
       <<"    mov     edi, 1">>,
       <<"    sub     rdx, rax">>,
       <<"    xor     eax, eax">>,
       <<"    lea     rsi, [rsp+32+rdx]">>,
       <<"    mov     rdx, r8">>,
       <<"    mov     rax, 1">>,
       <<"    syscall">>,
       <<"    add     rsp, 40">>,
       <<"    ret">>,
       <<"global _start">>,
       <<"_start:">> >>

PushTemplate(v) ==
    << <<"    ;; -- push ", FormatD(v), " --">>,
       <<"    push ", FormatD(v)>> >>

PlusTemplate ==
    << <<"    ;; -- add --">>,
       <<"    pop rax">>,
       <<"    pop rbx">>,
       <<"    add rax, rbx">>,
       <<"    push rax">> >>

MinusTemplate ==
    << <<"    ;; -- sub --">>,
       <<"    pop rax">>,
       <<"    pop rbx">>,
       <<"    sub rbx, rax">>,
       <<"    push rbx">> >>

DumpTemplate ==
    << <<"    ;; -- dump --">>,
       <<"    pop rdi">>,
       <<"    call dump">> >>

ExitTemplate ==
    << <<"    ;; -- exit --">>,
       <<"    mov rax, 60">>,
       <<"    mov rdi, 0">>,
       <<"    syscall">> >>

OpKinds == {OP_PUSH_INT, OP_PLUS, OP_MINUS, OP_DUMP}

\* the match statement: the lines appended for one operation
Lower(op) ==
    CASE op[1] = OP_PUSH_INT -> PushTemplate(op[2])
      [] op[1] = OP_PLUS -> PlusTemplate
      [] op[1] = OP_MINUS -> MinusTemplate
      [] op[1] = OP_DUMP -> DumpTemplate

\* the for loop of compile_ops from operation i on, `text` the lines so far
RECURSIVE compile_loop(_, _, _)
compile_loop(os, i, text) ==
    IF i > Len(os) THEN Returned(text \o ExitTemplate)
    ELSE IF os[i][1] \notin OpKinds THEN Raised(<<"Invalid op", os[i][1]>>)
    ELSE compile_loop(os, i + 1, text \o Lower(os[i]))

\* whether the operations os, run on a stack of `depth` values, never pop
\* more values than the stack holds (the templates' pushes and pops counted)
RECURSIVE Balanced(_, _)
Balanced(os, depth) ==
    IF os = <<>> THEN TRUE
    ELSE LET op == Head(os)[1]
             need == IF op = OP_PUSH_INT THEN 0 ELSE IF op = OP_DUMP THEN 1 ELSE 2
         IN  depth >= need
             /\ Balanced(Tail(os), IF op = OP_PUSH_INT THEN depth + 1 ELSE depth - 1)

\* (a variant that validates stack depth before emitting anything)
compile_ops_depth_checked(os) ==
    IF Balanced(os, 0) THEN compile_loop(os, 1, Header) ELSE Raised(<<"stack underflow">>)

compile_ops(os) == compile_loop(os, 1, Header)

(***************************************************************************)
(* The machine the emitted code runs on: x86-64 under Linux.  Memory is    *)
(* the stack region, byte by byte, addressed by offset from StackBase (the *)
(* stack pointer when the first template is entered with an empty stack);  *)
(* Junk is a byte this code has not written.  A code address is the index  *)
(* of its line in the text.                                                *)
(***************************************************************************)
StackBase == <<0, 224, 255, 255, 255, 127, 0, 0>>
Junk == 0 - 1
MemLo == 0 - (8 * MaxOps + 48)
MemHi == 0 - 1
MemRange == MemLo..MemHi
Regs == {"rax", "rbx", "rcx", "rdx", "rsi", "rdi", "r8", "r9", "rsp"}

\* -3689348814741910323, the operand of line 58
Magic == [neg |-> TRUE, mag |-> <<3,6,8,9,3,4,8,8,1,4,7,4,1,9,1,0,3,2,3>>]

\* the assembler's reading of a decimal operand: a 64-bit value
AsmNumber(chars) ==
    LET neg == chars # <<>> /\ Head(chars) = "-"
        body == IF neg THEN Tail(chars) ELSE chars
        w == WordOfDigits([i \in 1..Len(body) |-> DigitVal(body[i])], WordOfNat(0))
    IN  IF neg THEN NegW(w) ELSE w

\* the offset from StackBase of the address in word a, or Far
Off(a) == SmallOfW(SubW(a, StackBase))

Fault(m) == [m EXCEPT !.fault = TRUE, !.halted = TRUE]
SetR(m, r, w) == [m EXCEPT !.regs[r] = w, !.ip = @ + 1]

\* sub dst, src: dst becomes dst - src
SubRegSwapped(m, dst, src) == SetR(m, dst, SubW(m.regs[src], m.regs[dst]))
SubReg(m, dst, src) == SetR(m, dst, SubW(m.regs[dst], m.regs[src]))

\* the index of the line holding label lbl
LabelIndex(text, lbl) == CHOOSE i \in 1..Len(text) : text[i] = <<lbl>>

\* store one byte b at address a
StoreB(m, a, b) ==
    IF Off(a) \in MemRange
    THEN [m EXCEPT !.mem[Off(a)] = b, !.ip = @ + 1,
                   !.stores = @ \cup {SmallOfW(SubW(a, m.regs["rsp"]))}]
    ELSE Fault(m)

\* push: rsp goes down by 8 and the word is stored there, least byte first
Push(m, w) ==
    LET sp == SubW(m.regs["rsp"], WordOfNat(8))
        o == Off(sp)
    IN  IF o \in MemRange /\ o + 7 \in MemRange
        THEN [m EXCEPT !.regs["rsp"] = sp, !.ip = @ + 1,
                       !.mem = [k \in MemRange |->
                                   IF k >= o /\ k <= o + 7 THEN w[k - o + 1] ELSE @[k]]]
        ELSE Fault(m)

\* pop r: the word at rsp, and rsp goes up by 8.  A pop of memory this code
\* has not written (what the kernel or the caller left there) is outside
\* the model: the run is not followed further
HasJunk(m, o) == \E k \in o..o + 7 : m.mem[k] = Junk

Pop(m, r) ==
    LET o == Off(m.regs["rsp"])
    IN  IF o \in MemRange /\ o + 7 \in MemRange /\ ~HasJunk(m, o)
        THEN [m EXCEPT !.regs[r] = [i \in 1..WordLen |-> m.mem[o + i - 1]],
                       !.regs["rsp"] = AddW(m.regs["rsp"], WordOfNat(8)),
                       !.ip = @ + 1]
        ELSE Fault(m)

\* syscall: rax = 1 is write(rdi, rsi, rdx), rax = 60 is exit(rdi)
Syscall(m) ==
    LET nr == SmallOfW(m.regs["rax"])
        o == Off(m.regs["rsi"])
        n == SmallOfW(m.regs["rdx"])
    IN  IF nr = 60
        THEN [m EXCEPT !.halted = TRUE, !.code = m.regs["rdi"][1]]
        ELSE IF nr = 1 /\ n >= 0 /\ n # Far /\ o \in MemRange /\ o + n - 1 \in MemRange \cup {o - 1}
        THEN [m EXCEPT !.writes = Append(@, [fd |-> SmallOfW(m.regs["rdi"]),
                                             bytes |-> [i \in 1..n |-> m.mem[o + i - 1]],
                                             at |-> SmallOfW(SubW(m.regs["rsi"], m.regs["rsp"]))]),
                       !.regs["rax"] = m.regs["rdx"],
                       !.ip = @ + 1]
        ELSE Fault(m)

\* one instruction: the line ln of the text, executed in state m
Exec(m, ln, text) ==
    LET t == ln[1]
        R == m.regs
    IN  CASE t = "    mov     r9, -3689348814741910323" -> SetR(m, "r9", WordOfNumeral(Magic))
          [] t = "    sub     rsp, 40" ->
                 [SetR(m, "rsp", SubW(R["rsp"], WordOfNat(40))) EXCEPT !.stores = {}]
          [] t = "    mov     BYTE [rsp+31], 10" -> StoreB(m, AddW(R["rsp"], WordOfNat(31)), 10)
          [] t = "    lea     rcx, [rsp+30]" -> SetR(m, "rcx", AddW(R["rsp"], WordOfNat(30)))
          [] t = "    mov     rax, rdi" -> SetR(m, "rax", R["rdi"])
          [] t = "    lea     r8, [rsp+32]" -> SetR(m, "r8", AddW(R["rsp"], WordOfNat(32)))
          [] t = "    mul     r9" ->
                 LET p == MulColumns(R["rax"], R["r9"], 0, 0)
                 IN  [m EXCEPT !.regs["rax"] = SubSeq(p, 1, WordLen),
                               !.regs["rdx"] = SubSeq(p, WordLen + 1, 2 * WordLen),
                               !.ip = @ + 1]
          [] t = "    sub     r8, rcx" -> SubReg(m, "r8", "rcx")
          [] t = "    shr     rdx, 3" -> SetR(m, "rdx", Shr3W(R["rdx"]))
          [] t = "    lea     rsi, [rdx+rdx*4]" -> SetR(m, "rsi", MulSmallW(R["rdx"], 5))
          [] t = "    add     rsi, rsi" -> SetR(m, "rsi", AddW(R["rsi"], R["rsi"]))
          [] t = "    sub     rax, rsi" -> SubReg(m, "rax", "rsi")
          [] t = "    add     eax, 48" -> SetR(m, "rax", ZeroExtend32(AddW(R["rax"], WordOfNat(48))))
          [] t = "    mov     BYTE [rcx], al" -> StoreB(m, R["rcx"], R["rax"][1])
          [] t = "    mov     rdi, rdx" -> SetR(m, "rdi", R["rdx"])
          [] t = "    mov     rdx, rcx" -> SetR(m, "rdx", R["rcx"])
          [] t = "    sub     rcx, 1" -> SetR(m, "rcx", SubW(R["rcx"], WordOfNat(1)))
          [] t = "    cmp     rax, 9" -> [m EXCEPT !.above = Above9(R["rax"]), !.ip = @ + 1]
          [] t = "    ja      .L2" ->
                 [m EXCEPT !.ip = IF m.above THEN LabelIndex(text, ".L2:") ELSE @ + 1]
          [] t = "    lea     rax, [rsp+32]" -> SetR(m, "rax", AddW(R["rsp"], WordOfNat(32)))
          [] t = "    mov     edi, 1" -> SetR(m, "rdi", WordOfNat(1))
          [] t = "    sub     rdx, rax" -> SubReg(m, "rdx", "rax")
          [] t = "    xor     eax, eax" -> SetR(m, "rax", WordOfNat(0))
          [] t = "    lea     rsi, [rsp+32+rdx]" ->
                 SetR(m, "rsi", AddW(AddW(R["rsp"], WordOfNat(32)), R["rdx"]))
          [] t = "    mov     rdx, r8" -> SetR(m, "rdx", R["r8"])
          [] t = "    mov     rax, 1" -> SetR(m, "rax", WordOfNat(1))
          [] t = "    syscall" -> Syscall(m)
          [] t = "    add     rsp, 40" -> SetR(m, "rsp", AddW(R["rsp"], WordOfNat(40)))
          [] t = "    ret" ->
                 LET p == Pop(m, "rax")
                 IN  IF p.fault THEN p
                     ELSE [p EXCEPT !.regs["rax"] = R["rax"], !.ip = SmallOfW(p.regs["rax"])]
          [] t = "    push " -> Push(m, SignExtend32(AsmNumber(ln[2])))
          [] t = "    pop rax" -> Pop(m, "rax")
          [] t = "    pop rbx" -> Pop(m, "rbx")
          [] t = "    pop rdi" -> Pop(m, "rdi")
          [] t = "    add rax, rbx" -> SetR(m, "rax", AddW(R["rax"], R["rbx"]))
          [] t = "    sub rbx, rax" -> SubReg(m, "rbx", "rax")
          [] t = "    push rax" -> Push(m, R["rax"])
          [] t = "    push rbx" -> Push(m, R["rbx"])
          [] t = "    call dump" ->
                 [Push(m, WordOfNat(m.ip + 1)) EXCEPT
                     !.ip = IF @ = m.ip THEN @ ELSE LabelIndex(text, "dump:")]
          [] t = "    mov rax, 60" -> SetR(m, "rax", WordOfNat(60))
          [] t = "    mov rdi, 0" -> SetR(m, "rdi", WordOfNat(0))
          [] OTHER -> [m EXCEPT !.ip = @ + 1]

\* the comment line that opens the code of one operation
CommentHeads == {"    ;; -- push ", "    ;; -- add --", "    ;; -- sub --",
                 "    ;; -- dump --", "    ;; -- exit --"}
AtTemplate(m, text) == m.ip \in 1..Len(text) /\ text[m.ip][1] \in CommentHeads

\* run the lines from m.ip on, up to and including the first that halts,
\* transfers control or falls out of the text, or up to the next
\* operation's code
RECURSIVE Straight(_, _)
Straight(m, text) ==
    IF m.ip \notin 1..Len(text) THEN Fault(m)
    ELSE LET m2 == Exec(m, text[m.ip], text)
         IN  IF m2.halted \/ m2.ip # m.ip + 1 \/ AtTemplate(m2, text) THEN m2
             ELSE Straight(m2, text)

\* run until the next operation's code is reached or the process has ended
RECURSIVE RunOn(_, _)
RunOn(m, text) ==
    IF m.halted \/ AtTemplate(m, text) THEN m
    ELSE RunOn(Straight(m, text), text)

\* the code of the operation whose comment line is at m.ip
RunTemplate(m, text) == RunOn([m EXCEPT !.ip = @ + 1], text)

\* the machine on entry to the text, the words of `stack` pushed before
Boot(text, stack) ==
    [regs |-> [r \in Regs |-> IF r = "rsp"
                              THEN SubW(StackBase, WordOfNat(8 * Len(stack)))
                              ELSE WordOfNat(0)],
     ip |-> LabelIndex(text, "_start:") + 1,
     mem |-> [k \in MemRange |->
                IF k < 0 /\ k >= 0 - 8 * Len(stack)
                THEN stack[((0 - k - 1) \div 8) + 1][8 - ((0 - k - 1) % 8)]
                ELSE Junk],
     above |-> FALSE, writes |-> <<>>, halted |-> FALSE, code |-> 0,
     fault |-> FALSE, stores |-> {}]

(***************************************************************************)
(* lex_line applied to one line.                                           *)
(***************************************************************************)
LexAlphabet == {" ", "\t", "\n", "1", "+"}
Pending == [ok |-> FALSE, msg |-> <<"pending">>]

LexIdle == line = <<>> /\ lexed = Pending
LexInit == line \in TextsUpTo(LexAlphabet, MaxLineLen) /\ lexed = Pending

LexLine ==
    /\ lexed = Pending
    /\ lexed' = Returned(lex_line(line))
    /\ UNCHANGED <<line, tokVars, mainVars, runVars>>

(***************************************************************************)
(* parse_token_as_op applied to one token (tokens hold no whitespace and   *)
(* are not empty: lex_line yields no other).                               *)
(***************************************************************************)
TokAlphabet == {"+", "-", ".", "_", "0", "1", "a"}

TokIdle == token = <<>> /\ parsed = Pending
TokInit == token \in TextsUpTo(TokAlphabet, MaxTokLen) \ {<<>>} /\ parsed = Pending

ParseToken ==
    /\ parsed = Pending
    /\ parsed' = parse_token_as_op(token)
    /\ UNCHANGED <<token, lexVars, mainVars, runVars>>

(***************************************************************************)
(* main.                                                                   *)
(***************************************************************************)
FileAlphabet == {" ", "\n", "1", "+", "-", ".", "a"}
ScriptName == "main.py"
FileName == "prog.txt"
NotCalled == [ok |-> FALSE, msg |-> <<"not called">>]
NoFile == [written |-> FALSE, text |-> <<>>]
ExitStatuses == {"exit 0", "exit 1"}

MainIdle ==
    /\ argv = <<>> /\ content = <<>> /\ pc = "idle" /\ toks = <<>> /\ idx = 0
    /\ ops = <<>> /\ program = <<>> /\ printed = <<>> /\ out = NotCalled
    /\ outAsm = NoFile /\ calls = <<>>

MainInit ==
    /\ \/ argv = <<ScriptName>> /\ content = <<>>
       \/ argv = <<ScriptName, FileName>> /\ content \in TextsUpTo(FileAlphabet, MaxFileLen)
    /\ pc = "start" /\ toks = <<>> /\ idx = 0
    /\ ops = <<>> /\ program = <<>> /\ printed = <<>> /\ out = NotCalled
    /\ outAsm = NoFile /\ calls = <<>>

\* len(argv) < 2: the usage line, and return
Usage ==
    /\ pc = "start" /\ Len(argv) < 2
    /\ printed' = Append(printed, <<"Usage: main.py <file>">>)
    /\ pc' = "done"
    /\ UNCHANGED <<argv, content, toks, idx, ops, program, out, outAsm, calls>>
    /\ UNCHANGED <<lexVars, tokVars, runVars>>

\* parse_file is entered: ops = [], and lex_file(file) builds the whole token list
ParseFileEnter ==
    /\ pc = "start" /\ Len(argv) >= 2
    /\ toks' = lex_file(argv[2], content)
    /\ idx' = 0 /\ ops' = <<>>
    /\ pc' = "parse"
    /\ UNCHANGED <<argv, content, program, printed, out, outAsm, calls>>
    /\ UNCHANGED <<lexVars, tokVars, runVars>>

\* (a variant that reports the token and goes on with the next)
ParseFileStepKeepGoing ==
    /\ pc = "parse" /\ idx < Len(toks)
    /\ LET t == toks[idx + 1]
           r == parse_token_as_op(t[4])
       IN  /\ idx' = idx + 1
           /\ IF r.ok
              THEN ops' = Append(ops, r.val) /\ UNCHANGED printed
              ELSE /\ printed' = Append(printed,
                          <<"Error at ", t[1], t[2] + 1, t[3] + 1, r.msg>>)
                   /\ UNCHANGED ops
    /\ UNCHANGED <<argv, content, toks, pc, program, out, outAsm, calls>>
    /\ UNCHANGED <<lexVars, tokVars, runVars>>

\* one iteration of parse_file's loop, on token idx + 1
ParseFileStep ==
    /\ pc = "parse" /\ idx < Len(toks)
    /\ LET t == toks[idx + 1]
           r == parse_token_as_op(t[4])
       IN  /\ idx' = idx + 1
           /\ IF r.ok
              THEN /\ ops' = Append(ops, r.val)
                   /\ UNCHANGED <<pc, program, printed>>
              ELSE /\ printed' = Append(printed,
                          <<"Error at ", t[1], t[2] + 1, t[3] + 1, r.msg>>)
                   /\ program' = <<>>
                   /\ pc' = "parsed"
                   /\ UNCHANGED ops
    /\ UNCHANGED <<argv, content, toks, out, outAsm, calls>>
    /\ UNCHANGED <<lexVars, tokVars, runVars>>

\* the loop is over: return ops
ParseFileReturn ==
    /\ pc = "parse" /\ idx = Len(toks)
    /\ program' = ops
    /\ pc' = "parsed"
    /\ UNCHANGED <<argv, content, toks, idx, ops, printed, out, outAsm, calls>>
    /\ UNCHANGED <<lexVars, tokVars, runVars>>

\* (a variant without the return on an empty list)
PrintOpsNoReturn ==
    /\ pc = "parsed"
    /\ printed' = Append(printed, <<"ops", program>>)
    /\ pc' = "compile"
    /\ UNCHANGED <<argv, content, toks, idx, ops, program, out, outAsm, calls>>
    /\ UNCHANGED <<lexVars, tokVars, runVars>>

\* print(ops); if len(ops) == 0: return
PrintOps ==
    /\ pc = "parsed"
    /\ printed' = Append(printed, <<"ops", program>>)
    /\ pc' = IF Len(program) = 0 THEN "done" ELSE "compile"
    /\ UNCHANGED <<argv, content, toks, idx, ops, program, out, outAsm, calls>>
    /\ UNCHANGED <<lexVars, tokVars, runVars>>

\* out = compile_ops(ops); an exception goes to the except clause
Compile ==
    /\ pc = "compile"
    /\ out' = compile_ops(program)
    /\ IF out'.ok
       THEN pc' = "write" /\ UNCHANGED printed
       ELSE pc' = "done" /\ printed' = Append(printed, <<"exception", out'.msg>>)
    /\ UNCHANGED <<argv, content, toks, idx, ops, program, outAsm, calls>>
    /\ UNCHANGED <<lexVars, tokVars, runVars>>

\* open("out.asm", 'w') and f.write(out), or the OSError they raise
WriteAsm ==
    /\ pc = "write"
    /\ \/ /\ outAsm' = [written |-> TRUE, text |-> out.val]
          /\ printed' = Append(printed, <<"Compiled to out.asm">>)
          /\ pc' = "nasm"
       \/ /\ printed' = Append(printed, <<"exception", <<"OSError">>>>)
          /\ pc' = "done"
          /\ UNCHANGED outAsm
    /\ UNCHANGED <<argv, content, toks, idx, ops, program, out, calls>>
    /\ UNCHANGED <<lexVars, tokVars, runVars>>

\* print(banner); subprocess.run(cmd): the child exits with some status and
\* main goes on to `next`, or the program is not found and run raises
RunStep(banner, cmd, next) ==
    /\ \/ \E st \in ExitStatuses :
             /\ calls' = Append(calls, [cmd |-> cmd, status |-> st])
             /\ printed' = Append(printed, <<banner>>)
             /\ pc' = next
       \/ /\ calls' = Append(calls, [cmd |-> cmd, status |-> "not started"])
          /\ printed' = printed \o <<<<banner>>, <<"exception", <<"FileNotFoundError">>>>>>
          /\ pc' = "done"
    /\ UNCHANGED <<argv, content, toks, idx, ops, program, out, outAsm>>
    /\ UNCHANGED <<lexVars, tokVars, runVars>>

RunNasm ==
    /\ pc = "nasm"
    /\ RunStep("Running nasm...", <<"nasm", "-felf64", "out.asm">>, "ld")
RunLd ==
    /\ pc = "ld"
    /\ RunStep("Linking...", <<"ld", "-o", "out", "out.o">>, "run")
RunOut ==
    /\ pc = "run"
    /\ RunStep("Running...", <<"./out">>, "done")

(***************************************************************************)
(* The emitted code running.  `prog` is the operations whose code is still *)
(* to run and `entry` the values the code before it has left on the stack  *)
(* (none when prog is the whole program).  The programs run are those that *)
(* never pop more values than the stack holds.                             *)
(***************************************************************************)
Big32 == [neg |-> FALSE, mag |-> <<4,2,9,4,9,6,7,2,9,6>>]
MaxInt64 == [neg |-> FALSE, mag |-> <<9,2,2,3,3,7,2,0,3,6,8,5,4,7,7,5,8,0,7>>]
PushVals == {Num(2), Num(3), Num(10), Big32}
OpAlphabet == {<<OP_PUSH_INT, v>> : v \in PushVals} \cup {<<OP_PLUS>>, <<OP_MINUS>>, <<OP_DUMP>>}
EntryWords == {WordOfNumeral(n) : n \in {Num(0), MaxInt64, Num(0 - 1)}}

RunIdle == prog = <<>> /\ entry = <<>> /\ asm = <<>> /\ cpu = <<>>

RunInit ==
    /\ prog \in TextsUpTo(OpAlphabet, MaxOps)
    /\ entry \in TextsUpTo(EntryWords, MaxOps - Len(prog))
    /\ Balanced(prog, Len(entry))
    /\ asm = compile_ops(prog).val
    /\ cpu = Boot(asm, entry)

\* the code emitted for one operation (it opens with the comment `head`) runs
ExecTemplate(head) ==
    /\ ~cpu.halted
    /\ AtTemplate(cpu, asm)
    /\ asm[cpu.ip][1] = head
    /\ cpu' = RunTemplate(cpu, asm)
    /\ UNCHANGED <<prog, entry, asm, lexVars, tokVars, mainVars>>

ExecPushInt ==
    /\ cpu # <<>>
    /\ ExecTemplate("    ;; -- push ")
ExecPlus ==
    /\ cpu # <<>>
    /\ ExecTemplate("    ;; -- add --")
ExecMinus ==
    /\ cpu # <<>>
    /\ ExecTemplate("    ;; -- sub --")
ExecDump ==
    /\ cpu # <<>>
    /\ ExecTemplate("    ;; -- dump --")
ExecExit ==
    /\ cpu # <<>>
    /\ ExecTemplate("    ;; -- exit --")

Init == MainInit /\ LexIdle /\ TokIdle /\ RunIdle
Next ==
    \/ Usage
    \/ ParseFileEnter
    \/ ParseFileStep
    \/ ParseFileReturn
    \/ PrintOps
    \/ Compile
    \/ WriteAsm
    \/ RunNasm
    \/ RunLd
    \/ RunOut
Spec == Init /\ [][Next]_vars

InitLex == LexInit /\ TokIdle /\ MainIdle /\ RunIdle
NextLex == LexLine
SpecLex == InitLex /\ [][NextLex]_vars

InitTok == TokInit /\ LexIdle /\ MainIdle /\ RunIdle
NextTok == ParseToken
SpecTok == InitTok /\ [][NextTok]_vars

InitRun == RunInit /\ LexIdle /\ TokIdle /\ MainIdle
NextRun ==
    \/ ExecPushInt
    \/ ExecPlus
    \/ ExecMinus
    \/ ExecDump
    \/ ExecExit
SpecRun == InitRun /\ [][NextRun]_vars

(***************************************************************************)
(* The claims.                                                             *)
(***************************************************************************)

\* the diagnostics among the lines printed
IsDiag(l) == l[1] = "Error at "
Diags == SelectSeq(printed, IsDiag)

\* whether parse_token_as_op raises on the token record t of lex_file
Invalid(t) == ~parse_token_as_op(t[4]).ok
FirstInvalid == CHOOSE k \in 1..Len(toks) :
                    Invalid(toks[k]) /\ \A j \in 1..k - 1 : ~Invalid(toks[j])
ParseIsOver == pc \notin {"start", "parse"} /\ Len(argv) >= 2

\* C1: fail-fast parsing.  When the file holds a token that parse_token_as_op
\* rejects, parse_file prints exactly one diagnostic, `Error at
\* <file>:<row+1>:<col+1>: Invalid token <text>` for the first such token in
\* file order (row and col its 0-based line and column in the file), has
\* examined no token after it, and returns the empty list.
C1_FailFast ==
    (ParseIsOver /\ \E i \in 1..Len(toks) : Invalid(toks[i])) =>
        LET k == FirstInvalid
            t == toks[k]
            ln == readlines(content)[t[2] + 1]
        IN  /\ toks = lex_file(FileName, content)
            /\ Diags = << <<"Error at ", FileName, t[2] + 1, t[3] + 1,
                            <<"Invalid token", t[4]>> >> >>
            /\ SubSeq(ln, t[3] + 1, t[3] + Len(t[4])) = t[4]
            /\ idx = k
            /\ program = <<>>

\* a run that met an invalid token after a valid one and before another token
C1_Witness ==
    /\ pc = "done" /\ Len(argv) >= 2
    /\ \E i \in 1..Len(toks) : Invalid(toks[i])
    /\ FirstInvalid > 1 /\ FirstInvalid < Len(toks)
    /\ Len(Diags) = 1 /\ ops # <<>>

\* the integer texts of the table: an optional leading -, then digits only
StrictInt(t) ==
    LET b == IF t # <<>> /\ Head(t) = "-" THEN Tail(t) ELSE t
    IN  b # <<>> /\ \A i \in 1..Len(b) : b[i] \in Digits

\* C2: token classification.  + gives Plus, - gives Minus, . gives Dump; any
\* other text gives PushInt if and only if it is an optional leading -
\* followed by digits only, and every other text is rejected.
C2_Classification ==
    parsed # Pending =>
        IF token = <<"+">> THEN parsed = Returned(<<OP_PLUS>>)
        ELSE IF token = <<"-">> THEN parsed = Returned(<<OP_MINUS>>)
        ELSE IF token = <<".">> THEN parsed = Returned(<<OP_DUMP>>)
        ELSE /\ parsed.ok <=> StrictInt(token)
             /\ parsed.ok => parsed.val[1] = OP_PUSH_INT

\* the maximal runs of non-whitespace characters of ln: <<start, text>>,
\* start the 0-based offset of the run
IsRun(ln, st, en) ==
    /\ 0 <= st /\ st < en /\ en <= Len(ln)
    /\ \A i \in st + 1..en : ln[i] \notin Whitespace
    /\ st = 0 \/ ln[st] \in Whitespace
    /\ en = Len(ln) \/ ln[en + 1] \in Whitespace
MaximalRuns(ln) ==
    {<<q[1], SubSeq(ln, q[1] + 1, q[2])>> :
        q \in {r \in (0..Len(ln)) \X (0..Len(ln)) : IsRun(ln, r[1], r[2])}}

\* C3: lex_line yields exactly the maximal runs of non-whitespace characters
\* of the line, one token per run, left to right, each with the 0-based
\* offset where its run starts; no token is empty or holds whitespace, and a
\* line of whitespace only yields no token.
C3_MaximalRuns ==
    lexed # Pending =>
        LET ts == lexed.val
        IN  /\ {ts[i] : i \in 1..Len(ts)} = MaximalRuns(line)
            /\ \A i \in 1..Len(ts) - 1 : ts[i][1] < ts[i + 1][1]
            /\ \A i \in 1..Len(ts) :
                  ts[i][2] # <<>> /\ \A j \in 1..Len(ts[i][2]) : ts[i][2][j] \notin Whitespace
            /\ (\A j \in 1..Len(line) : line[j] \in Whitespace) => ts = <<>>

\* a line that starts with whitespace and holds two tokens has been scanned
C3_Witness ==
    /\ lexed # Pending
    /\ Len(line) > 0 /\ line[1] \in Whitespace
    /\ Len(lexed.val) = 2

\* C7: degenerate run.  With zero operations from parsing, main never calls
\* compile_ops, never writes out.asm and never runs a subprocess.
C7_DegenerateRun ==
    Len(program) = 0 => out = NotCalled /\ ~outAsm.written /\ calls = <<>>

\* main has returned after a parse that failed on a token that follows
\* valid ones
C7_Witness ==
    /\ pc = "done" /\ Len(argv) >= 2
    /\ Len(program) = 0 /\ ops # <<>> /\ Len(Diags) = 1

\* C9: the collaborator steps are gated on success.  The assembler runs only
\* after out.asm is written, and each later step runs only after the step
\* before it has exited with status 0.
C9_Gated ==
    /\ calls # <<>> => outAsm.written
    /\ \A i \in 2..Len(calls) : calls[i - 1].status = "exit 0"

\* the lines of the operations os, one template after the other
RECURSIVE Templates(_)
Templates(os) == IF os = <<>> THEN <<>> ELSE Lower(Head(os)) \o Templates(Tail(os))

\* C10: no stack-depth validation.  For every sequence of the four
\* operations, those that pop more than was pushed included, parse_file
\* prints no diagnostic and compile_ops returns the text: the fixed header,
\* each operation's fixed template in order, the exit epilogue.
C10_NoDepthCheck ==
    (ParseIsOver /\ \A i \in 1..Len(toks) : ~Invalid(toks[i])) =>
        /\ Diags = <<>>
        /\ Len(program) = Len(toks)
        /\ pc \in {"write", "nasm", "ld", "run"} => out # NotCalled
        /\ out # NotCalled =>
              out = Returned(Header \o Templates(program) \o ExitTemplate)

\* compile_ops has returned the text of a program that pops from an empty stack
C10_Witness ==
    /\ pc = "write" /\ out.ok
    /\ program # <<>> /\ ~Balanced(program, 0)
    /\ Diags = <<>>

\* the word i places below the top of the stack of machine m
Top(m, i) == [j \in 1..WordLen |-> m.mem[Off(m.regs["rsp"]) + 8 * i + j - 1]]

\* the stack region from the word i places below the top up is as it was
SameFrom(m, m2, i) ==
    \A k \in MemRange : k >= Off(m.regs["rsp"]) + 8 * i => m2.mem[k] = m.mem[k]

\* the bytes each write call has written
Written(m) == [i \in 1..Len(m.writes) |-> m.writes[i].bytes]

PushInt(k) == <<OP_PUSH_INT, Num(k)>>
WholeProgram(os) == prog = os /\ entry = <<>>

\* C4: Minus operand order.  With a below b on the stack, the code of Minus
\* pops both and leaves a - b on top, the rest of the stack unchanged; the
\* program `10 3 - .` prints 7.
C4_MinusOrder ==
    /\ [][ExecMinus =>
            LET b == Top(cpu, 0)
                a == Top(cpu, 1)
            IN  /\ ~cpu'.fault
                /\ AddW(Top(cpu', 0), b) = a
                /\ cpu'.regs["rsp"] = AddW(cpu.regs["rsp"], WordOfNat(8))
                /\ SameFrom(cpu, cpu', 2)]_vars
    /\ [](WholeProgram(<<PushInt(10), PushInt(3), <<OP_MINUS>>, <<OP_DUMP>>>>) /\ cpu.halted
            => Written(cpu) = << <<55, 10>> >>)

\* `10 3 - .` has run to its end and printed 7
C4_Witness ==
    /\ WholeProgram(<<PushInt(10), PushInt(3), <<OP_MINUS>>, <<OP_DUMP>>>>)
    /\ cpu.halted /\ ~cpu.fault
    /\ Written(cpu) = << <<55, 10>> >>

\* the unsigned decimal digits of a word, by long division
RECURSIVE DivBytes10(_, _, _)
DivBytes10(a, i, rem) ==
    IF i = 0 THEN <<>>
    ELSE Append(DivBytes10(a, i - 1, (rem * 256 + a[i]) % 10), (rem * 256 + a[i]) \div 10)
RECURSIVE ModBytes10(_, _, _)
ModBytes10(a, i, rem) ==
    IF i = 0 THEN rem ELSE ModBytes10(a, i - 1, (rem * 256 + a[i]) % 10)
\* quotient bytes come out most significant last: byte i is appended after 1..i-1
Div10(a) == DivBytes10(a, WordLen, 0)
Mod10(a) == ModBytes10(a, WordLen, 0)
RECURSIVE UDigits(_)
UDigits(a) ==
    IF a[1] < 10 /\ \A i \in 2..WordLen : a[i] = 0 THEN <<a[1]>>
    ELSE Append(UDigits(Div10(a)), Mod10(a))
DecimalLine(a) == [i \in 1..Len(UDigits(a)) |-> 48 + UDigits(a)[i]] \o <<10>>

\* the bytes that `sub rsp, 40` reserves
DumpFrame == 40

\* C5: Dump of a non-negative value.  With n, 0 <= n < 2^63, on top of the
\* stack, the code of Dump pops n and writes to standard output, in one
\* write call, the decimal digits of n and a newline, all of them inside the
\* 40 bytes the subroutine reserves; `2 3 + .` prints 5 and a newline and
\* exits with code 0.
C5_DumpNonNegative ==
    /\ [][(ExecDump /\ ~IsNegW(Top(cpu, 0))) =>
            LET n == Top(cpu, 0)
                w == cpu'.writes[Len(cpu'.writes)]
            IN  /\ ~cpu'.fault
                /\ Len(cpu'.writes) = Len(cpu.writes) + 1
                /\ w.fd = 1
                /\ w.bytes = DecimalLine(n)
                /\ w.at >= 0 /\ w.at + Len(w.bytes) <= DumpFrame
                /\ cpu'.stores = w.at..w.at + Len(w.bytes) - 1
                /\ cpu'.regs["rsp"] = AddW(cpu.regs["rsp"], WordOfNat(8))
                /\ SameFrom(cpu, cpu', 1)]_vars
    /\ [](WholeProgram(<<PushInt(2), PushInt(3), <<OP_PLUS>>, <<OP_DUMP>>>>) /\ cpu.halted
            => Written(cpu) = << <<53, 10>> >> /\ cpu.code = 0 /\ ~cpu.fault)

\* 2^63 - 1 has been dumped: nineteen digits and the newline
C5_Witness ==
    /\ cpu.writes # <<>>
    /\ cpu.writes[1].bytes = DecimalLine(WordOfNumeral(MaxInt64))
    /\ Len(cpu.writes[1].bytes) = 20

\* the stack machine on integers: the lines it prints
RECURSIVE Simulate(_, _, _)
Simulate(os, stack, lines) ==
    IF os = <<>> THEN lines
    ELSE LET op == Head(os)
             n == Len(stack)
         IN  CASE op[1] = OP_PUSH_INT ->
                    Simulate(Tail(os), Append(stack, op[2]), lines)
               [] op[1] = OP_PLUS ->
                    Simulate(Tail(os), Append(SubSeq(stack, 1, n - 2), stack[n - 1] + stack[n]), lines)
               [] op[1] = OP_MINUS ->
                    Simulate(Tail(os), Append(SubSeq(stack, 1, n - 2), stack[n - 1] - stack[n]), lines)
               [] op[1] = OP_DUMP ->
                    Simulate(Tail(os), SubSeq(stack, 1, n - 1), Append(lines, stack[n]))

\* a signed integer in decimal, and a newline
SignedLine(k) ==
    (IF k < 0 THEN <<45>> ELSE <<>>)
    \o [i \in 1..Len(NatDigits(IF k < 0 THEN 0 - k ELSE k)) |->
            48 + NatDigits(IF k < 0 THEN 0 - k ELSE k)[i]]
    \o <<10>>

SmallLiterals == {2, 3, 10}
\* the operations with their literals as integers, for programs of small literals
AsIntegers(os) ==
    [i \in 1..Len(os) |->
        IF os[i][1] = OP_PUSH_INT
        THEN <<OP_PUSH_INT, CHOOSE k \in SmallLiterals : Num(k) = os[i][2]>>
        ELSE os[i]]
HasSmallLiterals(os) ==
    \A i \in 1..Len(os) :
        os[i][1] = OP_PUSH_INT => \E k \in SmallLiterals : Num(k) = os[i][2]

\* C6: round trip.  For a program that never pops more than was pushed, the
\* emitted code prints the same decimal values as the stack machine on
\* signed integers, negative values included.
C6_RoundTrip ==
    (cpu.halted /\ entry = <<>> /\ HasSmallLiterals(prog)) =>
        LET sim == Simulate(AsIntegers(prog), <<>>, <<>>)
        IN  Written(cpu) = [i \in 1..Len(sim) |-> SignedLine(sim[i])]

\* how many operations' code has run when the machine is at line m.ip
OpsDone(m) == Cardinality({i \in 1..m.ip - 1 : asm[i][1] \in CommentHeads})

\* C8: PushInt over the 64-bit range.  The instruction emitted for
\* PushInt(v), -2^63 <= v < 2^63, leaves exactly v on top of the stack.
C8_PushWholeRange ==
    (cpu.halted = FALSE /\ AtTemplate(cpu, asm) /\ OpsDone(cpu) >= 1
        /\ prog[OpsDone(cpu)][1] = OP_PUSH_INT) =>
        Top(cpu, 0) = WordOfNumeral(prog[OpsDone(cpu)][2])

====
